---- MODULE Spec2Model ----
(***************************************************************************)
(* Authentication and session security of the store-directory backend:     *)
(* the request handlers of the auth controller (register, login, refresh,  *)
(* logout, forgot/reset/change password), the bearer-token middleware and  *)
(* the persisted user record they share.                                   *)
(*                                                                         *)
(* Every handler is split at the points where it awaits the document       *)
(* store, so requests in flight interleave exactly where the event loop    *)
(* lets them.  A handler holds a private copy of the user document between *)
(* its read and its save; save() sends only the paths the handler changed  *)
(* (Mongoose delta save): scalar paths by $set/$unset without a version    *)
(* check, an array grown by push() as $push with an increment of __v, an   *)
(* array that was assigned as a whole as $set guarded by the __v that was  *)
(* read (a mismatch is a VersionError, answered 500).                      *)
(*                                                                         *)
(* Time is the wall clock in milliseconds.  Durations keep the order of    *)
(* the source (access = reset < lock < refresh) on a reduced scale, with   *)
(* MsPerSec milliseconds to the second, so that instants inside one JWT    *)
(* second and the expiry boundaries are all explored.                      *)
(***************************************************************************)
EXTENDS Integers, Sequences, FiniteSets, TLC

\* ---------------------------------------------------------------- bounds
MaxNow == 4            \* the clock stops advancing here
MaxLockNow == 3        \* the clock of SpecLock stops here
MaxOps == 3            \* requests started in one behaviour of Spec
MaxSeqOps == 4         \* requests started in one behaviour of SpecSeq
MaxLoginOps == 7       \* requests started in one behaviour of SpecLock, SpecLockSeq
MaxResetOps == 4       \* requests started in one behaviour of SpecReset
MaxForgot == 1         \* forgot-password requests started in one behaviour
MaxForgotTwice == 2    \* forgot-password requests in one behaviour of SpecForgot
MaxForgotOps == 5      \* requests started in one behaviour of SpecForgot
MaxForgotNow == 1      \* the clock of SpecForgot stops here, before a token expires
MaxChangeOps == 4      \* requests started in one behaviour of SpecChange
MaxKeysOps == 3        \* requests started in one behaviour of SpecKeys
MaxKeepOps == 4        \* requests started in one behaviour of SpecKeep
MaxCrossOps == 4       \* requests started in one behaviour of SpecCross
MaxCrossNow == 1       \* the clock of SpecCross stops here
MaxRegOps == 3         \* requests started in one behaviour of SpecRegister
MaxUnlockOps == 9      \* requests started in one behaviour of SpecUnlock
MaxUnlockNow == 1      \* the clock of SpecUnlock stops here, inside the lock window
MaxSessionOps == 3     \* requests started in one behaviour of SpecSession, SpecSessionSeq

\* ----------------------------------------------------- program constants
MsPerSec == 2          \* Math.floor(ms / 1000), on the reduced scale
AccessTtlSec == 1      \* expiresIn: '15m'
RefreshTtlSec == 2     \* expiresIn: '7d'
RefreshTtlMs == 4      \* 7 * 24 * 60 * 60 * 1000
LockMs == 3            \* 30 * 60 * 1000
ResetTtlMs == 2        \* 15 * 60 * 1000
MaxFailedAttempts == 5 \* user.loginAttempts >= 5

Procs == {1, 2}
Users == {"a", "b"}
RawEmails == {"a", "A"} \* the email as the client typed it

\* the emails of two accounts
TwoEmails == {"a", "b"}
Passwords == {"p1", "p2"}

NoTime == -1           \* an unset Date path
NoUser == "-"
NoReset == 0           \* no reset token presented / generated

\* ------------------------------------------------------------ primitives
\* emailSchema .transform(toLowerCase) and the schema path { lowercase, trim }
NormalizeEmail(raw) == IF raw = "A" THEN "a" ELSE raw

\* bcrypt.hash(password, 10) and bcrypt.compare(password, hash)
BcryptHash(pw) == <<"bcrypt", pw>>
NoHash == <<>>
BcryptCompare(pw, h) == h = BcryptHash(pw)

\* crypto.createHash("sha256").update(token).digest("hex")
Sha256(t) == <<"sha256", t>>

\* Math.floor(Date.now() / 1000): the clock of jsonwebtoken
Seconds(ms) == ms \div MsPerSec

\* jwt.sign({ userId }, secret, { expiresIn }): HS256 is deterministic, the
\* token string is a function of the payload {userId, iat, exp} and the key.
JwtSign(uid, secret, ttl, ms) ==
    [sub |-> uid, iat |-> Seconds(ms), exp |-> Seconds(ms) + ttl, key |-> secret]

NoToken == [sub |-> NoUser, iat |-> 0, exp |-> 0, key |-> "none"]

\* jwt.verify(token, secret): signature, then exp against the clock
JwtVerify(tok, secret, ms) == tok.key = secret /\ Seconds(ms) < tok.exp

\* process.env, read when a token is signed or verified
VARIABLE env

Unset == ""

\* both keys configured
BothKeys == [JWT_SECRET |-> "JWT_SECRET", JWT_REFRESH_SECRET |-> "JWT_REFRESH_SECRET"]

\* the configurations the server starts with: JWT_REFRESH_SECRET set or not
Envs == {BothKeys, [BothKeys EXCEPT !.JWT_REFRESH_SECRET = Unset]}

\* process.env.JWT_SECRET
AccessSecret == env.JWT_SECRET

\* process.env.JWT_REFRESH_SECRET || process.env.JWT_SECRET
RefreshSecret ==
    IF env.JWT_REFRESH_SECRET # Unset THEN env.JWT_REFRESH_SECRET ELSE env.JWT_SECRET

\* an access token signed with a longer expiresIn
signAccessToken_LongLived(uid, ms) == JwtSign(uid, AccessSecret, AccessTtlSec + 1, ms)

signAccessToken(uid, ms) == JwtSign(uid, AccessSecret, AccessTtlSec, ms)
signRefreshToken(uid, ms) == JwtSign(uid, RefreshSecret, RefreshTtlSec, ms)

\* --------------------------------------------------------- user document
AbsentUser ==
    [exists |-> FALSE, passwordHash |-> NoHash, passwordChangedAt |-> NoTime,
     lastPasswordChangeAt |-> NoTime, loginAttempts |-> 0,
     accountLockedUntil |-> NoTime, lastLoginAt |-> NoTime,
     passwordResetToken |-> <<>>, passwordResetExpires |-> NoTime,
     refreshTokens |-> <<>>, v |-> 0]

\* User.create({ email, passwordHash, displayName })
NewUser(hash) == [AbsentUser EXCEPT !.exists = TRUE, !.passwordHash = hash]

ScalarPaths ==
    {"passwordHash", "passwordChangedAt", "lastPasswordChangeAt", "loginAttempts",
     "accountLockedUntil", "lastLoginAt", "passwordResetToken",
     "passwordResetExpires"}

\* user.save() when only scalar paths were assigned: the paths whose value
\* differs from the value that was loaded are written, the others are not sent.
\* A path in fresh was assigned a salted hash, which never equals the old one.
SaveScalars(stored, loaded, doc, fresh) ==
    [f \in DOMAIN stored |->
        IF f \in ScalarPaths /\ (f \in fresh \/ doc[f] # loaded[f])
        THEN doc[f] ELSE stored[f]]

\* user.refreshTokens.push(entry); user.save(): $push and $inc of __v
SavePush(stored, entry) ==
    [stored EXCEPT !.refreshTokens = Append(@, entry), !.v = @ + 1]

\* user.refreshTokens = array; user.save(): $set of the whole array, with
\* the __v that was loaded in the filter of the update
VersionOk(stored, loaded) == stored.v = loaded.v
SaveArray(stored, arr) ==
    [stored EXCEPT !.refreshTokens = arr, !.v = @ + 1]

\* createRefreshToken: the entry pushed for a token signed at ms
RefreshEntry(uid, ms) ==
    [token |-> signRefreshToken(uid, ms), expiresAt |-> ms + RefreshTtlMs]

\* Array.prototype.filter((t) => t.token !== refreshToken)
RECURSIVE FilterOut(_, _)
FilterOut(arr, tok) ==
    IF arr = <<>> THEN <<>>
    ELSE IF Head(arr).token = tok THEN FilterOut(Tail(arr), tok)
         ELSE <<Head(arr)>> \o FilterOut(Tail(arr), tok)

\* an entry check that finds every token
HasLiveEntry_Always(arr, tok, ms) == TRUE

\* Array.prototype.find((t) => t.token === refreshToken && t.expiresAt > Date.now())
HasLiveEntry(arr, tok, ms) ==
    \E i \in 1..Len(arr) : arr[i].token = tok /\ arr[i].expiresAt > ms

\* a lock check that never lets a lock run out
IsLocked_Sticky(doc, ms) == doc.accountLockedUntil # NoTime

\* a lock check that misses the last instant before the lock ends
IsLocked_Early(doc, ms) ==
    doc.accountLockedUntil # NoTime /\ doc.accountLockedUntil > ms + 1

\* user.accountLockedUntil && user.accountLockedUntil > Date.now()
IsLocked(doc, ms) == doc.accountLockedUntil # NoTime /\ doc.accountLockedUntil > ms

\* displayName: { required: [true, 'Display name is required'] }
RequiredPathsPresent(hasName) == hasName

\* a unique index that lets every insert through
UniqueIndexAllows_Any(n) == TRUE

\* email: { unique: true }: an insert is refused (E11000) while the collection
\* holds a document with this email
UniqueIndexAllows(n) == n = 0

\* --------------------------------------------------------------- state
VARIABLES
    now,        \* Date.now()
    db,         \* the users collection, by normalized email
    ndocs,      \* per email: the number of documents in the collection
    procs,      \* the requests in flight, one per slot
    nops,       \* requests started so far
    nextReset,  \* the next value of crypto.randomBytes(32)
    mailed,     \* reset tokens delivered by sendEmail
    issuedA,    \* access tokens returned to clients
    issuedR,    \* refresh tokens returned to clients
    signedAt,   \* latest instant at which each returned access token was signed
    rotated,    \* refresh tokens for which a Refresh has answered 200
    redeemed,   \* reset tokens for which a ResetPassword has answered 200
    wrong,      \* per user: wrong-password logins answered since the last match
    lifted,     \* per user: the end of the lock most recently removed from the record
    last        \* the latest response sent

vars == <<env, now, db, ndocs, procs, nops, nextReset, mailed, issuedA, issuedR,
          signedAt, rotated, redeemed, wrong, lifted, last>>

\* what clients hold and the response channel
Client == <<issuedA, issuedR, signedAt, last>>

Idle ==
    [op |-> "none", pc |-> "idle", uid |-> NoUser, hasName |-> FALSE,
     pw |-> "-", npw |-> "-", tok |-> NoToken, refreshToken |-> NoToken,
     rtok |-> NoReset,
     doc |-> AbsentUser]

NoResponse == [op |-> "none", uid |-> NoUser, pw |-> "-", res |-> "-",
               tok |-> NoToken, refreshToken |-> NoToken, rtok |-> NoReset,
               at |-> NoToken, rt |-> NoToken]

\* the state of a server that has just started, whatever its configuration
Booted ==
    /\ now = 0
    /\ db = [u \in Users |-> AbsentUser]
    /\ ndocs = [u \in Users |-> 0]
    /\ procs = [p \in Procs |-> Idle]
    /\ nops = 0
    /\ nextReset = 1
    /\ mailed = {}
    /\ issuedA = {}
    /\ issuedR = {}
    /\ signedAt = [t \in {} |-> 0]
    /\ rotated = {}
    /\ redeemed = {}
    /\ wrong = [u \in Users |-> 0]
    /\ lifted = [u \in Users |-> NoTime]
    /\ last = NoResponse

\* a server configured with both keys
Init == env = BothKeys /\ Booted

\* a server in any of the key configurations
InitKeys == env \in Envs /\ Booted

Others == <<now, nextReset, mailed, rotated, redeemed, wrong, lifted>>

Active == {p \in Procs : procs[p].pc # "idle"}

\* a request is accepted into a free slot while the budget lasts
CanStart(p, maxOps, maxConc) ==
    /\ procs[p].pc = "idle"
    /\ \A q \in Procs : q < p => procs[q].pc # "idle"
    /\ nops < maxOps
    /\ Cardinality(Active) < maxConc

\* the response of request p: status res, tokens at/rt in the body
Respond(p, res, at, rt) ==
    /\ procs' = [procs EXCEPT ![p] = Idle]
    /\ last' = [op |-> procs[p].op, uid |-> procs[p].uid,
                pw |-> procs[p].pw, res |-> res, tok |-> procs[p].tok,
                refreshToken |-> procs[p].refreshToken, rtok |-> procs[p].rtok,
                at |-> at, rt |-> rt]
    /\ issuedA' = IF at = NoToken THEN issuedA ELSE issuedA \cup {at}
    /\ issuedR' = IF rt = NoToken THEN issuedR ELSE issuedR \cup {rt}
    /\ signedAt' = IF at = NoToken THEN signedAt
                   ELSE [t \in DOMAIN signedAt \cup {at} |->
                            IF t = at THEN now ELSE signedAt[t]]

Fail(p, res) == Respond(p, res, NoToken, NoToken)

\* ---------------------------------------------------------------- clock
Tick(maxNow) ==
    /\ now < maxNow
    /\ now' = now + 1
    /\ UNCHANGED <<db, ndocs, env, procs, nops, nextReset, mailed, rotated, redeemed, wrong,
                   lifted, Client>>

\* ------------------------------------------------- POST /api/auth/register

\* req.validated as the validation layer hands it over: the email normalized,
\* displayName present (validateAuthRequest passes it on) or absent
\* (validateBody(registerSchema) keeps the keys of the schema, which has name)
\* (the two passwords are interchangeable until one is registered)
RegisterStart(p, maxOps, maxConc, emails) ==
    /\ CanStart(p, maxOps, maxConc)
    /\ \E raw \in emails, pw \in {"p1"}, hasName \in BOOLEAN :
         procs' = [procs EXCEPT ![p] =
                     [Idle EXCEPT !.op = "register", !.pc = "find",
                                  !.uid = NormalizeEmail(raw), !.pw = pw,
                                  !.hasName = hasName]]
    /\ nops' = nops + 1
    /\ UNCHANGED <<db, ndocs, env, Client, Others>>

\* a registration that does not look the email up
RegisterFind_NoLookup(p) ==
    /\ procs[p].op = "register" /\ procs[p].pc = "find"
    /\ procs' = [procs EXCEPT ![p].pc = "create"]
    /\ UNCHANGED <<db, ndocs, env, nops, Client, Others>>

\* const existing = await User.findOne({ email })
RegisterFind(p) ==
    /\ procs[p].op = "register" /\ procs[p].pc = "find"
    /\ IF db[procs[p].uid].exists
       THEN Fail(p, "EmailAlreadyExists")
       ELSE /\ procs' = [procs EXCEPT ![p].pc = "create"]
            /\ UNCHANGED Client
    /\ UNCHANGED <<db, ndocs, env, nops, Others>>

\* bcrypt.hash, then User.create: the validators of the schema, then the
\* insert under the unique index on email
RegisterCreate(p) ==
    /\ procs[p].op = "register" /\ procs[p].pc = "create"
    /\ LET u == procs[p].uid
           doc == NewUser(BcryptHash(procs[p].pw))
       IN IF ~RequiredPathsPresent(procs[p].hasName)
          THEN /\ Fail(p, "ValidationError")
               /\ UNCHANGED <<db, ndocs, env>>
          ELSE IF ~UniqueIndexAllows(ndocs[u])
          THEN /\ Fail(p, "DuplicateKey")
               /\ UNCHANGED <<db, ndocs, env>>
          ELSE /\ db' = [db EXCEPT ![u] = doc]
               /\ ndocs' = [ndocs EXCEPT ![u] = @ + 1]
               /\ procs' = [procs EXCEPT ![p].pc = "issue", ![p].doc = doc]
               /\ UNCHANGED Client
    /\ UNCHANGED <<nops, env, Others>>

\* signAccessToken, createRefreshToken (push, save), 201
RegisterIssue(p) ==
    /\ procs[p].op = "register" /\ procs[p].pc = "issue"
    /\ LET u == procs[p].uid
           at == signAccessToken(u, now)
           e == RefreshEntry(u, now)
       IN /\ db' = [db EXCEPT ![u] = SavePush(@, e)]
          /\ Respond(p, "201", at, e.token)
    /\ UNCHANGED <<ndocs, env, nops, Others>>

\* ---------------------------------------------------- POST /api/auth/login
LoginStart(p, maxOps, maxConc, emails) ==
    /\ CanStart(p, maxOps, maxConc)
    /\ \E raw \in emails, pw \in Passwords :
         procs' = [procs EXCEPT ![p] =
                     [Idle EXCEPT !.op = "login", !.pc = "find",
                                  !.uid = NormalizeEmail(raw), !.pw = pw]]
    /\ nops' = nops + 1
    /\ UNCHANGED <<db, ndocs, env, Client, Others>>

\* a lock check that counts the refused login as a failure
LoginFind_CountsLocked(p) ==
    /\ procs[p].op = "login" /\ procs[p].pc = "find"
    /\ LET u == procs[p].uid
           user == db[u]
       IN IF ~user.exists
          THEN /\ Fail(p, "InvalidCredentials")
               /\ UNCHANGED <<db, wrong>>
          ELSE IF IsLocked(user, now)
          THEN /\ Fail(p, "AccountLocked")
               /\ db' = [db EXCEPT ![u].loginAttempts = @ + 1]
               /\ wrong' = IF BcryptCompare(procs[p].pw, user.passwordHash) THEN wrong
                           ELSE [wrong EXCEPT ![u] = @ + 1]
          ELSE /\ procs' = [procs EXCEPT ![p].pc = "compare", ![p].doc = user]
               /\ UNCHANGED <<db, Client, wrong>>
    /\ UNCHANGED <<ndocs, env, nops, now, nextReset, mailed, rotated, redeemed, lifted>>

\* findOne, then the lock check; bcrypt.compare is awaited next
LoginFind(p) ==
    /\ procs[p].op = "login" /\ procs[p].pc = "find"
    /\ LET user == db[procs[p].uid]
       IN IF ~user.exists
          THEN /\ Fail(p, "InvalidCredentials")
               /\ UNCHANGED wrong
          ELSE IF IsLocked(user, now)
          THEN /\ Fail(p, "AccountLocked")
               /\ wrong' = IF BcryptCompare(procs[p].pw, user.passwordHash) THEN wrong
                           ELSE [wrong EXCEPT ![procs[p].uid] = @ + 1]
          ELSE /\ procs' = [procs EXCEPT ![p].pc = "compare", ![p].doc = user]
               /\ UNCHANGED <<Client, wrong>>
    /\ UNCHANGED <<db, ndocs, env, nops, now, nextReset, mailed, rotated, redeemed, lifted>>

\* a failed comparison that locks on the fifth failure and on no later one
LoginFailed_OnlyFifth(doc, ms) ==
    LET n == doc.loginAttempts + 1
    IN [doc EXCEPT !.loginAttempts = n,
                   !.accountLockedUntil =
                       IF n = MaxFailedAttempts THEN ms + LockMs ELSE @]

\* a failed comparison that locks only past the fifth failure
LoginFailed_LateLock(doc, ms) ==
    LET n == doc.loginAttempts + 1
    IN [doc EXCEPT !.loginAttempts = n,
                   !.accountLockedUntil =
                       IF n > MaxFailedAttempts THEN ms + LockMs ELSE @]

\* the document after a failed comparison (lines 108-113)
LoginFailed(doc, ms) ==
    LET n == doc.loginAttempts + 1
    IN [doc EXCEPT !.loginAttempts = n,
                   !.accountLockedUntil =
                       IF n >= MaxFailedAttempts THEN ms + LockMs ELSE @]

\* a successful comparison that keeps the failure count
LoginSucceeded_KeepAttempts(doc, ms) ==
    [doc EXCEPT !.accountLockedUntil = NoTime, !.lastLoginAt = ms]

\* the document after a successful comparison (lines 120-122)
LoginSucceeded(doc, ms) ==
    [doc EXCEPT !.loginAttempts = 0, !.accountLockedUntil = NoTime, !.lastLoginAt = ms]

\* the lock ends removed so far, after user u's record becomes after
Lifted(u, after) ==
    IF db[u].accountLockedUntil # NoTime /\ after.accountLockedUntil = NoTime
    THEN [lifted EXCEPT ![u] = db[u].accountLockedUntil]
    ELSE lifted

\* the comparison has resolved: update the counters and save
LoginCompare(p) ==
    /\ procs[p].op = "login" /\ procs[p].pc = "compare"
    /\ LET u == procs[p].uid
           loaded == procs[p].doc
       IN IF ~BcryptCompare(procs[p].pw, loaded.passwordHash)
          THEN /\ db' = [db EXCEPT ![u] = SaveScalars(@, loaded, LoginFailed(loaded, now), {})]
               /\ Fail(p, "InvalidCredentials")
               /\ wrong' = [wrong EXCEPT ![u] = @ + 1]
          ELSE /\ db' = [db EXCEPT ![u] = SaveScalars(@, loaded, LoginSucceeded(loaded, now), {})]
               /\ procs' = [procs EXCEPT ![p].pc = "issue",
                                         ![p].doc = LoginSucceeded(loaded, now)]
               /\ wrong' = [wrong EXCEPT ![u] = 0]
               /\ UNCHANGED Client
    /\ lifted' = Lifted(procs[p].uid, db'[procs[p].uid])
    /\ UNCHANGED <<ndocs, env, nops, now, nextReset, mailed, rotated, redeemed>>

\* signAccessToken, createRefreshToken (push, save), 200
LoginIssue(p) ==
    /\ procs[p].op = "login" /\ procs[p].pc = "issue"
    /\ LET u == procs[p].uid
           at == signAccessToken(u, now)
           e == RefreshEntry(u, now)
       IN /\ db' = [db EXCEPT ![u] = SavePush(@, e)]
          /\ Respond(p, "200", at, e.token)
    /\ UNCHANGED <<ndocs, env, nops, Others>>

\* -------------------------------------------------- POST /api/auth/refresh
RefreshStart(p, maxOps, maxConc, toks) ==
    /\ CanStart(p, maxOps, maxConc)
    /\ \E t \in toks \cup {NoToken} :
         procs' = [procs EXCEPT ![p] =
                     [Idle EXCEPT !.op = "refresh", !.pc = "find", !.tok = t]]
    /\ nops' = nops + 1
    /\ UNCHANGED <<db, ndocs, env, Client, Others>>

\* jwt.verify, then findById(decoded.userId)
RefreshFind(p) ==
    /\ procs[p].op = "refresh" /\ procs[p].pc = "find"
    /\ LET t == procs[p].tok
       IN IF ~JwtVerify(t, RefreshSecret, now) THEN Fail(p, "TokenInvalid")
          ELSE IF ~db[t.sub].exists THEN Fail(p, "UserNotFound")
          ELSE /\ procs' = [procs EXCEPT ![p].pc = "rotate", ![p].uid = t.sub,
                                         ![p].doc = db[t.sub]]
               /\ UNCHANGED Client
    /\ UNCHANGED <<db, ndocs, env, nops, Others>>

\* the entry check, signAccessToken, filter, createRefreshToken (push, save)
RefreshRotate(p) ==
    /\ procs[p].op = "refresh" /\ procs[p].pc = "rotate"
    /\ LET u == procs[p].uid
           t == procs[p].tok
           loaded == procs[p].doc
           at == signAccessToken(u, now)
           e == RefreshEntry(u, now)
           arr == Append(FilterOut(loaded.refreshTokens, t), e)
       IN IF ~HasLiveEntry(loaded.refreshTokens, t, now)
          THEN /\ Fail(p, "TokenRevoked")
               /\ UNCHANGED <<db, rotated>>
          ELSE IF ~VersionOk(db[u], loaded)
          THEN /\ Fail(p, "ServerError")
                    /\ UNCHANGED <<db, rotated>>
          ELSE /\ db' = [db EXCEPT ![u] = SaveArray(@, arr)]
                    /\ rotated' = rotated \cup {t}
               /\ Respond(p, "200", at, e.token)
    /\ UNCHANGED <<ndocs, env, nops, now, nextReset, mailed, redeemed, wrong, lifted>>

\* ------------------------------------------ POST /api/auth/forgot-password
ForgotStart(p, maxOps, maxConc, maxForgot) ==
    /\ CanStart(p, maxOps, maxConc)
    /\ nextReset <= maxForgot
    /\ \E raw \in RawEmails :
         procs' = [procs EXCEPT ![p] =
                     [Idle EXCEPT !.op = "forgot", !.pc = "find",
                                  !.uid = NormalizeEmail(raw)]]
    /\ nops' = nops + 1
    /\ UNCHANGED <<db, ndocs, env, Client, Others>>

\* a lookup that tells the client the email is unknown
ForgotFind_TellsUnknown(p) ==
    /\ procs[p].op = "forgot" /\ procs[p].pc = "find"
    /\ IF ~db[procs[p].uid].exists
       THEN Fail(p, "UserNotFound")
       ELSE /\ procs' = [procs EXCEPT ![p].pc = "save", ![p].doc = db[procs[p].uid]]
            /\ UNCHANGED Client
    /\ UNCHANGED <<db, ndocs, env, nops, Others>>

\* findOne; an unknown email is answered 200 at once
ForgotFind(p) ==
    /\ procs[p].op = "forgot" /\ procs[p].pc = "find"
    /\ IF ~db[procs[p].uid].exists
       THEN Fail(p, "200")
       ELSE /\ procs' = [procs EXCEPT ![p].pc = "save", ![p].doc = db[procs[p].uid]]
            /\ UNCHANGED Client
    /\ UNCHANGED <<db, ndocs, env, nops, Others>>

\* a request that keeps a reset token that is already stored
ForgotSave_KeepFirst(p) ==
    /\ procs[p].op = "forgot" /\ procs[p].pc = "save"
    /\ LET u == procs[p].uid
           loaded == procs[p].doc
           doc == IF loaded.passwordResetToken # <<>> THEN loaded
                  ELSE [loaded EXCEPT !.passwordResetToken = Sha256(nextReset),
                                      !.passwordResetExpires = now + ResetTtlMs]
       IN /\ db' = [db EXCEPT ![u] = SaveScalars(@, loaded, doc, {})]
          /\ procs' = [procs EXCEPT ![p].pc = "mail", ![p].doc = doc,
                                    ![p].rtok = nextReset]
    /\ nextReset' = nextReset + 1
    /\ UNCHANGED <<now, ndocs, env, nops, mailed, rotated, redeemed, wrong, lifted, Client>>

\* randomBytes, sha256, the two reset paths, save; sendEmail is awaited next
ForgotSave(p) ==
    /\ procs[p].op = "forgot" /\ procs[p].pc = "save"
    /\ LET u == procs[p].uid
           loaded == procs[p].doc
           doc == [loaded EXCEPT !.passwordResetToken = Sha256(nextReset),
                                 !.passwordResetExpires = now + ResetTtlMs]
       IN /\ db' = [db EXCEPT ![u] = SaveScalars(@, loaded, doc, {})]
          /\ procs' = [procs EXCEPT ![p].pc = "mail", ![p].doc = doc,
                                    ![p].rtok = nextReset]
    /\ nextReset' = nextReset + 1
    /\ UNCHANGED <<now, ndocs, env, nops, mailed, rotated, redeemed, wrong, lifted, Client>>

\* sendEmail resolved: the link is delivered and the answer is 200
ForgotMailed(p) ==
    /\ procs[p].op = "forgot" /\ procs[p].pc = "mail"
    /\ mailed' = mailed \cup {procs[p].rtok}
    /\ Fail(p, "200")
    /\ UNCHANGED <<now, db, ndocs, env, nops, nextReset, rotated, redeemed, wrong, lifted>>

\* sendEmail rejected: the error reaches errorMiddleware, 500
ForgotMailFailed(p) ==
    /\ procs[p].op = "forgot" /\ procs[p].pc = "mail"
    /\ Fail(p, "ServerError")
    /\ UNCHANGED <<db, ndocs, env, nops, Others>>

\* ------------------------------------------- POST /api/auth/reset-password
ResetStart(p, maxOps, maxConc) ==
    /\ CanStart(p, maxOps, maxConc)
    /\ \E t \in mailed \cup {NoReset}, pw \in Passwords :
         procs' = [procs EXCEPT ![p] =
                     [Idle EXCEPT !.op = "reset", !.pc = "find", !.rtok = t, !.npw = pw]]
    /\ nops' = nops + 1
    /\ UNCHANGED <<db, ndocs, env, Client, Others>>

\* a query that still matches at the instant of expiry
ResetMatches_AtExpiry(user, rtok, ms) ==
    /\ user.exists
    /\ user.passwordResetToken = Sha256(rtok)
    /\ user.passwordResetExpires # NoTime
    /\ user.passwordResetExpires >= ms

\* User.findOne({ passwordResetToken, passwordResetExpires: { $gt: Date.now() } })
ResetMatches(user, rtok, ms) ==
    /\ user.exists
    /\ user.passwordResetToken = Sha256(rtok)
    /\ user.passwordResetExpires # NoTime
    /\ user.passwordResetExpires > ms

ResetFind(p) ==
    /\ procs[p].op = "reset" /\ procs[p].pc = "find"
    /\ IF \E u \in Users : ResetMatches(db[u], procs[p].rtok, now)
       THEN /\ \E u \in Users :
                 /\ ResetMatches(db[u], procs[p].rtok, now)
                 /\ procs' = [procs EXCEPT ![p].pc = "save", ![p].uid = u, ![p].doc = db[u]]
            /\ UNCHANGED Client
       ELSE Fail(p, "ResetTokenNotFound")
    /\ UNCHANGED <<db, ndocs, env, nops, Others>>

\* a redemption that leaves the lockout state as it was
ResetApplied_KeepLock(doc, npw, ms) ==
    [doc EXCEPT !.passwordHash = BcryptHash(npw),
                !.passwordResetToken = <<>>,
                !.passwordResetExpires = NoTime,
                !.passwordChangedAt = ms,
                !.lastPasswordChangeAt = ms]

\* a redemption that leaves the stored token hash in place
ResetApplied_KeepToken(doc, npw, ms) ==
    [doc EXCEPT !.passwordHash = BcryptHash(npw),
                !.passwordChangedAt = ms,
                !.lastPasswordChangeAt = ms,
                !.loginAttempts = 0,
                !.accountLockedUntil = NoTime]

\* the document after redemption (lines 260-272)
ResetApplied(doc, npw, ms) ==
    [doc EXCEPT !.passwordHash = BcryptHash(npw),
                !.passwordResetToken = <<>>,
                !.passwordResetExpires = NoTime,
                !.passwordChangedAt = ms,
                !.lastPasswordChangeAt = ms,
                !.loginAttempts = 0,
                !.accountLockedUntil = NoTime]

\* bcrypt.hash resolved: assign the paths and save
ResetSave(p) ==
    /\ procs[p].op = "reset" /\ procs[p].pc = "save"
    /\ LET u == procs[p].uid
           loaded == procs[p].doc
       IN db' = [db EXCEPT ![u] =
                    SaveScalars(@, loaded, ResetApplied(loaded, procs[p].npw, now),
                               {"passwordHash"})]
    /\ redeemed' = redeemed \cup {procs[p].rtok}
    /\ wrong' = [wrong EXCEPT ![procs[p].uid] = 0]
    /\ lifted' = Lifted(procs[p].uid, db'[procs[p].uid])
    /\ Fail(p, "200")
    /\ UNCHANGED <<ndocs, env, nops, now, nextReset, mailed, rotated>>

\* ------------------------------------------------------- authMiddleware
\* Bearer token: jwt.verify with JWT_SECRET, findById, the passwordChangedAt
\* check against iat; 401 or next()
AuthAccepts(tok, ms, users) ==
    /\ JwtVerify(tok, AccessSecret, ms)
    /\ users[tok.sub].exists
    /\ ~ ( /\ users[tok.sub].passwordChangedAt # NoTime
           /\ tok.iat < Seconds(users[tok.sub].passwordChangedAt) )

authMiddleware(p) ==
    /\ procs[p].pc = "auth"
    /\ IF AuthAccepts(procs[p].tok, now, db)
       THEN /\ procs' = [procs EXCEPT ![p].pc = "find", ![p].uid = procs[p].tok.sub]
            /\ UNCHANGED Client
       ELSE Fail(p, "Unauthorized")
    /\ UNCHANGED <<db, ndocs, env, nops, Others>>

\* ------------------------------------------------------- GET /api/auth/me
MeStart(p, maxOps, maxConc, toks) ==
    /\ CanStart(p, maxOps, maxConc)
    /\ \E t \in toks \cup {NoToken} :
         procs' = [procs EXCEPT ![p] =
                     [Idle EXCEPT !.op = "me", !.pc = "auth", !.tok = t]]
    /\ nops' = nops + 1
    /\ UNCHANGED <<db, ndocs, env, Client, Others>>

\* User.findById(userId).select('_id email displayName')
getMe(p) ==
    /\ procs[p].op = "me" /\ procs[p].pc = "find"
    /\ IF db[procs[p].uid].exists THEN Fail(p, "200") ELSE Fail(p, "UserNotFound")
    /\ UNCHANGED <<db, ndocs, env, nops, Others>>

\* --------------------------------------------- PUT /api/auth/change-password
ChangeStart(p, maxOps, maxConc) ==
    /\ CanStart(p, maxOps, maxConc)
    /\ \E t \in issuedA \cup {NoToken}, cur \in Passwords, new \in Passwords :
         procs' = [procs EXCEPT ![p] =
                     [Idle EXCEPT !.op = "change", !.pc = "auth", !.tok = t,
                                  !.pw = cur, !.npw = new]]
    /\ nops' = nops + 1
    /\ UNCHANGED <<db, ndocs, env, Client, Others>>

\* currentPassword === newPassword, then findById
ChangeFind(p) ==
    /\ procs[p].op = "change" /\ procs[p].pc = "find"
    /\ IF procs[p].pw = procs[p].npw THEN Fail(p, "SamePassword")
       ELSE IF ~db[procs[p].uid].exists THEN Fail(p, "UserNotFound")
       ELSE /\ procs' = [procs EXCEPT ![p].pc = "save", ![p].doc = db[procs[p].uid]]
            /\ UNCHANGED Client
    /\ UNCHANGED <<db, ndocs, env, nops, Others>>

\* the document after the change (lines 229-232)
ChangeApplied(doc, npw, ms) ==
    [doc EXCEPT !.passwordHash = BcryptHash(npw),
                !.passwordChangedAt = ms,
                !.lastPasswordChangeAt = ms]

\* a change that also signs the user out of every session
ChangeSave_RevokesSessions(p) ==
    /\ procs[p].op = "change" /\ procs[p].pc = "save"
    /\ LET u == procs[p].uid
           loaded == procs[p].doc
       IN IF ~BcryptCompare(procs[p].pw, loaded.passwordHash)
          THEN /\ Fail(p, "InvalidCredentials")
               /\ UNCHANGED db
          ELSE /\ db' = [db EXCEPT ![u] =
                            SaveArray(SaveScalars(@, loaded,
                                                  ChangeApplied(loaded, procs[p].npw, now),
                                                  {"passwordHash"}), <<>>)]
               /\ Fail(p, "200")
    /\ UNCHANGED <<ndocs, env, nops, Others>>

\* a change that does not compare the current password
ChangeSave_NoCompare(p) ==
    /\ procs[p].op = "change" /\ procs[p].pc = "save"
    /\ LET u == procs[p].uid
           loaded == procs[p].doc
       IN db' = [db EXCEPT ![u] =
                    SaveScalars(@, loaded, ChangeApplied(loaded, procs[p].npw, now),
                                {"passwordHash"})]
    /\ Fail(p, "200")
    /\ UNCHANGED <<ndocs, env, nops, Others>>

\* bcrypt.compare, bcrypt.hash, assign, save
ChangeSave(p) ==
    /\ procs[p].op = "change" /\ procs[p].pc = "save"
    /\ LET u == procs[p].uid
           loaded == procs[p].doc
       IN IF ~BcryptCompare(procs[p].pw, loaded.passwordHash)
          THEN /\ Fail(p, "InvalidCredentials")
               /\ UNCHANGED db
          ELSE /\ db' = [db EXCEPT ![u] =
                            SaveScalars(@, loaded, ChangeApplied(loaded, procs[p].npw, now),
                                        {"passwordHash"})]
               /\ Fail(p, "200")
    /\ UNCHANGED <<ndocs, env, nops, Others>>

\* --------------------------------------------------- POST /api/auth/logout
\* the bearer token and the body: refreshToken is one that was issued, or absent
LogoutStart(p, maxOps, maxConc) ==
    /\ CanStart(p, maxOps, maxConc)
    /\ \E t \in issuedA \cup {NoToken}, rt \in issuedR \cup {NoToken} :
         procs' = [procs EXCEPT ![p] =
                     [Idle EXCEPT !.op = "logout", !.pc = "auth", !.tok = t,
                                  !.refreshToken = rt]]
    /\ nops' = nops + 1
    /\ UNCHANGED <<db, ndocs, env, Client, Others>>

\* const user = await User.findById(userId)
LogoutFind(p) ==
    /\ procs[p].op = "logout" /\ procs[p].pc = "find"
    /\ IF ~db[procs[p].uid].exists THEN Fail(p, "UserNotFound")
       ELSE /\ procs' = [procs EXCEPT ![p].pc = "save", ![p].doc = db[procs[p].uid]]
            /\ UNCHANGED Client
    /\ UNCHANGED <<db, ndocs, env, nops, Others>>

\* the array assigned by logout: without the presented token, or empty
LogoutTokens(arr, refreshToken) ==
    IF refreshToken # NoToken THEN FilterOut(arr, refreshToken) ELSE <<>>

\* a logout that takes the presented token out of the record of the user the
\* token names
LogoutSave_ByTokenOwner(p) ==
    /\ procs[p].op = "logout" /\ procs[p].pc = "save"
    /\ LET o == IF procs[p].refreshToken = NoToken THEN procs[p].uid
                ELSE procs[p].refreshToken.sub
           arr == LogoutTokens(db[o].refreshTokens, procs[p].refreshToken)
       IN /\ db' = [db EXCEPT ![o] = SaveArray(@, arr)]
          /\ Fail(p, "200")
    /\ UNCHANGED <<ndocs, env, nops, Others>>

\* assign refreshTokens, save, 200; an array equal to the one that was read is
\* no modification and nothing is sent
LogoutSave(p) ==
    /\ procs[p].op = "logout" /\ procs[p].pc = "save"
    /\ LET u == procs[p].uid
           loaded == procs[p].doc
           arr == LogoutTokens(loaded.refreshTokens, procs[p].refreshToken)
       IN IF arr = loaded.refreshTokens
          THEN /\ Fail(p, "200")
               /\ UNCHANGED db
          ELSE IF ~VersionOk(db[u], loaded)
          THEN /\ Fail(p, "ServerError")
               /\ UNCHANGED db
          ELSE /\ db' = [db EXCEPT ![u] = SaveArray(@, arr)]
               /\ Fail(p, "200")
    /\ UNCHANGED <<ndocs, env, nops, Others>>

\* -------------------------------------------------------- error responses
\* what the client reads of a refusal: status, code and message of the AppError
ErrorBody(res) ==
    CASE res = "TokenInvalid" ->
             [status |-> 401, code |-> "AUTH_004",
              message |-> "Invalid or expired refresh token"]
      [] res = "TokenRevoked" ->
             [status |-> 401, code |-> "AUTH_004",
              message |-> "Refresh token has expired or is invalid"]
      [] res = "UserNotFound" ->
             [status |-> 404, code |-> "NOT_FOUND_001", message |-> "User not found"]
      [] OTHER ->
             [status |-> 500, code |-> "SERVER_001", message |-> "An unexpected error occurred. Please try again later."]

\* res.status(): the statusCode of the AppError that errorMiddleware answers
\* with.  The refusals of authMiddleware are plain Errors: they are no
\* AppError, no Mongoose error and not named JsonWebTokenError, so they are
\* answered like a VersionError or a failure of sendEmail, with 500.
Status(res) ==
    CASE res = "200" -> 200
      [] res = "201" -> 201
      [] res \in {"ValidationError", "SamePassword"} -> 400
      [] res \in {"InvalidCredentials", "TokenInvalid", "TokenRevoked"} -> 401
      [] res \in {"UserNotFound", "ResetTokenNotFound"} -> 404
      [] res \in {"EmailAlreadyExists", "DuplicateKey"} -> 409
      [] res = "AccountLocked" -> 429
      [] res \in {"Unauthorized", "ServerError"} -> 500

\* ---------------------------------------------------------- specification
Step(maxOps, maxConc) ==
    \E p \in Procs :
        \/ RegisterStart(p, maxOps, maxConc, RawEmails) \/ RegisterFind(p)
        \/ RegisterCreate(p) \/ RegisterIssue(p)
        \/ LoginStart(p, maxOps, maxConc, RawEmails) \/ LoginFind(p)
        \/ LoginCompare(p) \/ LoginIssue(p)
        \/ RefreshStart(p, maxOps, maxConc, issuedR) \/ RefreshFind(p) \/ RefreshRotate(p)
        \/ ForgotStart(p, maxOps, maxConc, MaxForgot) \/ ForgotFind(p) \/ ForgotSave(p)
        \/ ForgotMailed(p) \/ ForgotMailFailed(p)
        \/ ResetStart(p, maxOps, maxConc) \/ ResetFind(p) \/ ResetSave(p)
        \/ MeStart(p, maxOps, maxConc, issuedA) \/ getMe(p)
        \/ ChangeStart(p, maxOps, maxConc) \/ ChangeFind(p) \/ ChangeSave(p)
        \/ authMiddleware(p)

Next == Tick(MaxNow) \/ Step(MaxOps, 2)

Spec == Init /\ [][Next]_vars

\* every request, one at a time
NextSeq == Tick(MaxNow) \/ Step(MaxSeqOps, 1)

SpecSeq == Init /\ [][NextSeq]_vars

\* register and login only, long enough for five failures and one more login
LoginStep(maxOps, maxConc) ==
    \E p \in Procs :
        \/ RegisterStart(p, maxOps, maxConc, RawEmails) \/ RegisterFind(p)
        \/ RegisterCreate(p) \/ RegisterIssue(p)
        \/ LoginStart(p, maxOps, maxConc, RawEmails) \/ LoginFind(p)
        \/ LoginCompare(p) \/ LoginIssue(p)

NextLock == Tick(MaxLockNow) \/ LoginStep(MaxLoginOps, 2)

SpecLock == Init /\ [][NextLock]_vars

\* the same requests, one at a time
NextLockSeq == Tick(MaxNow) \/ LoginStep(MaxLoginOps, 1)

SpecLockSeq == Init /\ [][NextLockSeq]_vars

\* register and login, two in flight, a short run
NextRegister == Tick(MaxNow) \/ LoginStep(MaxRegOps, 2)

SpecRegister == Init /\ [][NextRegister]_vars

\* register and the reset flow
ResetStep(maxOps, maxConc) ==
    \E p \in Procs :
        \/ RegisterStart(p, maxOps, maxConc, RawEmails) \/ RegisterFind(p)
        \/ RegisterCreate(p) \/ RegisterIssue(p)
        \/ ForgotStart(p, maxOps, maxConc, MaxForgot) \/ ForgotFind(p) \/ ForgotSave(p)
        \/ ForgotMailed(p) \/ ForgotMailFailed(p)
        \/ ResetStart(p, maxOps, maxConc) \/ ResetFind(p) \/ ResetSave(p)

NextReset == Tick(MaxNow) \/ ResetStep(MaxResetOps, 2)

SpecReset == Init /\ [][NextReset]_vars

\* register and the reset flow with a second forgot-password request
ForgotStep(maxOps, maxConc) ==
    \E p \in Procs :
        \/ RegisterStart(p, maxOps, maxConc, RawEmails) \/ RegisterFind(p)
        \/ RegisterCreate(p) \/ RegisterIssue(p)
        \/ ForgotStart(p, maxOps, maxConc, MaxForgotTwice) \/ ForgotFind(p)
        \/ ForgotSave(p) \/ ForgotMailed(p) \/ ForgotMailFailed(p)
        \/ ResetStart(p, maxOps, maxConc) \/ ResetFind(p) \/ ResetSave(p)

NextForgot == Tick(MaxForgotNow) \/ ForgotStep(MaxForgotOps, 2)

SpecForgot == Init /\ [][NextForgot]_vars

\* register, login and the requests behind authMiddleware that read or change
\* the password state, one at a time
ChangeStep(maxOps, maxConc) ==
    \E p \in Procs :
        \/ RegisterStart(p, maxOps, maxConc, RawEmails) \/ RegisterFind(p)
        \/ RegisterCreate(p) \/ RegisterIssue(p)
        \/ LoginStart(p, maxOps, maxConc, RawEmails) \/ LoginFind(p)
        \/ LoginCompare(p) \/ LoginIssue(p)
        \/ MeStart(p, maxOps, maxConc, issuedA) \/ getMe(p)
        \/ ChangeStart(p, maxOps, maxConc) \/ ChangeFind(p) \/ ChangeSave(p)
        \/ authMiddleware(p)

NextChange == Tick(MaxNow) \/ ChangeStep(MaxChangeOps, 1)

SpecChange == Init /\ [][NextChange]_vars

\* register, refresh and me, where a client presents any token it holds
KeysStep(maxOps, maxConc) ==
    \E p \in Procs :
        \/ RegisterStart(p, maxOps, maxConc, RawEmails) \/ RegisterFind(p)
        \/ RegisterCreate(p) \/ RegisterIssue(p)
        \/ RefreshStart(p, maxOps, maxConc, issuedA \cup issuedR)
        \/ RefreshFind(p) \/ RefreshRotate(p)
        \/ MeStart(p, maxOps, maxConc, issuedA \cup issuedR) \/ getMe(p)
        \/ authMiddleware(p)

NextKeys == Tick(MaxNow) \/ KeysStep(MaxKeysOps, 1)

\* the server in any of its key configurations
SpecKeys == InitKeys /\ [][NextKeys]_vars

\* register, change-password, refresh and me, one at a time
KeepStep(maxOps, maxConc) ==
    \E p \in Procs :
        \/ RegisterStart(p, maxOps, maxConc, RawEmails) \/ RegisterFind(p)
        \/ RegisterCreate(p) \/ RegisterIssue(p)
        \/ ChangeStart(p, maxOps, maxConc) \/ ChangeFind(p) \/ ChangeSave(p)
        \/ RefreshStart(p, maxOps, maxConc, issuedR)
        \/ RefreshFind(p) \/ RefreshRotate(p)
        \/ MeStart(p, maxOps, maxConc, issuedA) \/ getMe(p)
        \/ authMiddleware(p)

NextKeep == Tick(MaxNow) \/ KeepStep(MaxKeepOps, 1)

SpecKeep == Init /\ [][NextKeep]_vars

\* two accounts: every request that writes a record, one at a time
CrossStep(maxOps, maxConc) ==
    \E p \in Procs :
        \/ RegisterStart(p, maxOps, maxConc, TwoEmails) \/ RegisterFind(p)
        \/ RegisterCreate(p) \/ RegisterIssue(p)
        \/ LoginStart(p, maxOps, maxConc, TwoEmails) \/ LoginFind(p)
        \/ LoginCompare(p) \/ LoginIssue(p)
        \/ RefreshStart(p, maxOps, maxConc, issuedR)
        \/ RefreshFind(p) \/ RefreshRotate(p)
        \/ LogoutStart(p, maxOps, maxConc) \/ LogoutFind(p) \/ LogoutSave(p)
        \/ ChangeStart(p, maxOps, maxConc) \/ ChangeFind(p) \/ ChangeSave(p)
        \/ ForgotStart(p, maxOps, maxConc, MaxForgot) \/ ForgotFind(p)
        \/ ForgotSave(p) \/ ForgotMailed(p) \/ ForgotMailFailed(p)
        \/ ResetStart(p, maxOps, maxConc) \/ ResetFind(p) \/ ResetSave(p)
        \/ authMiddleware(p)

NextCross == Tick(MaxCrossNow) \/ CrossStep(MaxCrossOps, 1)

SpecCross == Init /\ [][NextCross]_vars

\* register, login and the reset flow, one at a time, long enough to lock an
\* account, reset its password and log in again
UnlockStep(maxOps, maxConc) ==
    \E p \in Procs :
        \/ RegisterStart(p, maxOps, maxConc, RawEmails) \/ RegisterFind(p)
        \/ RegisterCreate(p) \/ RegisterIssue(p)
        \/ LoginStart(p, maxOps, maxConc, RawEmails) \/ LoginFind(p)
        \/ LoginCompare(p) \/ LoginIssue(p)
        \/ ForgotStart(p, maxOps, maxConc, MaxForgot) \/ ForgotFind(p) \/ ForgotSave(p)
        \/ ForgotMailed(p) \/ ForgotMailFailed(p)
        \/ ResetStart(p, maxOps, maxConc) \/ ResetFind(p) \/ ResetSave(p)

NextUnlock == Tick(MaxUnlockNow) \/ UnlockStep(MaxUnlockOps, 1)

SpecUnlock == Init /\ [][NextUnlock]_vars

\* the session requests: register, login, refresh, logout
SessionStep(maxOps, maxConc) ==
    \E p \in Procs :
        \/ RegisterStart(p, maxOps, maxConc, RawEmails) \/ RegisterFind(p)
        \/ RegisterCreate(p) \/ RegisterIssue(p)
        \/ LoginStart(p, maxOps, maxConc, RawEmails) \/ LoginFind(p)
        \/ LoginCompare(p) \/ LoginIssue(p)
        \/ RefreshStart(p, maxOps, maxConc, issuedR) \/ RefreshFind(p) \/ RefreshRotate(p)
        \/ LogoutStart(p, maxOps, maxConc) \/ LogoutFind(p) \/ LogoutSave(p)
        \/ authMiddleware(p)

NextSession == Tick(MaxNow) \/ SessionStep(MaxSessionOps, 2)

SpecSession == Init /\ [][NextSession]_vars

\* the same requests, one at a time
NextSessionSeq == Tick(MaxNow) \/ SessionStep(MaxSessionOps, 1)

SpecSessionSeq == Init /\ [][NextSessionSeq]_vars

\* ------------------------------------------------------------ properties
\* request p is answered in this step
Answered(p) == procs[p].pc # "idle" /\ procs'[p].pc = "idle"

\* C1: a refresh token for which Refresh has answered 200 is never accepted by
\* a later Refresh: no Refresh presenting it is answered 200 again.
C1_RefreshTokenSingleUse ==
    [][\A p \in Procs :
          (procs[p].op = "refresh" /\ Answered(p) /\ procs[p].tok \in rotated)
              => last'.res # "200"]_vars

\* C2: of two Refresh requests in flight with the same token, the one that
\* saves after the token was rotated away is answered TokenRevoked.
C2_ConcurrentRefreshLoserRevoked ==
    [][\A p \in Procs :
          ( /\ procs[p].op = "refresh" /\ procs[p].pc = "rotate" /\ Answered(p)
            /\ procs[p].tok \in rotated
            /\ ~HasLiveEntry(db[procs[p].uid].refreshTokens, procs[p].tok, now) )
              => last'.res = "TokenRevoked"]_vars

\* C3: every login answered InvalidCredentials for a wrong password raises the
\* stored loginAttempts by exactly one, whatever other login is in flight.
C3_NoLostLoginAttempt ==
    [][\A p \in Procs :
          ( /\ procs[p].op = "login" /\ procs[p].pc = "compare" /\ Answered(p) )
              => db'[procs[p].uid].loginAttempts
                    = db[procs[p].uid].loginAttempts + 1]_vars

\* request p takes a step
Steps(p) == procs'[p] # procs[p]

\* the lock of user u ends in the future
LockInFuture(u) == db[u].accountLockedUntil > now

\* the password presented with the latest response matches the stored hash
LastPasswordMatches ==
    last.uid \in Users /\ BcryptCompare(last.pw, db[last.uid].passwordHash)

\* C4: the failed login that brings the run of wrong passwords to five or more
\* locks the account until that instant + 30 minutes, and a login that finds
\* the lock in the future is answered AccountLocked at once: it never reaches
\* the hash comparison and writes nothing, whatever password it presents.
C4_LockAfterFiveFailures ==
    [][\A p \in Procs :
          LET u == procs[p].uid
          IN /\ ( /\ procs[p].op = "login" /\ procs[p].pc = "compare" /\ Answered(p)
                  /\ wrong'[u] >= MaxFailedAttempts )
                    => db'[u].accountLockedUntil = now + LockMs
             /\ ( /\ procs[p].op = "login" /\ procs[p].pc = "find" /\ Steps(p)
                  /\ db[u].exists /\ LockInFuture(u) )
                    => /\ last'.res = "AccountLocked"
                       /\ procs'[p].pc = "idle"
                       /\ db' = db]_vars

C4_Witness ==
    /\ last.op = "login" /\ last.res = "AccountLocked" /\ LastPasswordMatches
    /\ wrong[last.uid] >= MaxFailedAttempts
    /\ db[last.uid].accountLockedUntil > now

\* C5 as stated: the fifth wrong-password login in a row is answered
\* AccountLocked.
C5_FifthWrongLoginAnsweredLocked ==
    [][\A p \in Procs :
          ( /\ procs[p].op = "login" /\ Answered(p)
            /\ wrong[procs[p].uid] = MaxFailedAttempts - 1
            /\ wrong'[procs[p].uid] = MaxFailedAttempts )
              => last'.res = "AccountLocked"]_vars

\* C5 amended: the fifth wrong-password login in a row is answered
\* InvalidCredentials and leaves the account locked; a login with the correct
\* password inside the lock window is answered AccountLocked.
C5_FifthWrongLoginLocks ==
    [][\A p \in Procs :
          LET u == procs[p].uid
          IN /\ ( /\ procs[p].op = "login" /\ Answered(p)
                  /\ wrong[u] = MaxFailedAttempts - 1
                  /\ wrong'[u] = MaxFailedAttempts )
                    => /\ last'.res = "InvalidCredentials"
                       /\ db'[u].accountLockedUntil > now
             /\ ( /\ procs[p].op = "login" /\ procs[p].pc = "find" /\ Steps(p)
                  /\ db[u].exists /\ LockInFuture(u)
                  /\ BcryptCompare(procs[p].pw, db[u].passwordHash) )
                    => last'.res = "AccountLocked"]_vars

C5_Witness ==
    /\ last.op = "login" /\ last.res = "AccountLocked" /\ LastPasswordMatches
    /\ wrong[last.uid] = MaxFailedAttempts
    /\ db[last.uid].loginAttempts = MaxFailedAttempts

\* C6: accountLockedUntil is set only while loginAttempts >= 5, and it goes from
\* set to unset only in a login that matched or in a password reset.
C6_LockOnlyWithFiveAttempts ==
    /\ [](\A u \in Users :
             db[u].accountLockedUntil # NoTime => db[u].loginAttempts >= MaxFailedAttempts)
    /\ [][\A u \in Users :
             (db[u].accountLockedUntil # NoTime /\ db'[u].accountLockedUntil = NoTime)
                 => \E p \in Procs :
                       /\ procs[p].uid = u /\ Steps(p)
                       /\ \/ procs[p].op = "login" /\ procs[p].pc = "compare"
                             /\ ~Answered(p)
                          \/ procs[p].op = "reset" /\ procs[p].pc = "save"]_vars

\* C7: authMiddleware lets a request through only if its access token was
\* issued no earlier than the subject's latest password change, and it lets
\* through every unexpired token issued after that change.
C7_StaleAccessTokenRejected ==
    [][\A p \in Procs :
          LET t == procs[p].tok
          IN /\ (procs[p].pc = "auth" /\ procs'[p].pc = "find")
                    => \/ db[t.sub].passwordChangedAt = NoTime
                       \/ signedAt[t] >= db[t.sub].passwordChangedAt
             /\ ( /\ procs[p].pc = "auth" /\ Steps(p)
                  /\ t \in DOMAIN signedAt
                  /\ JwtVerify(t, AccessSecret, now)
                  /\ signedAt[t] > db[t.sub].passwordChangedAt )
                    => procs'[p].pc = "find"]_vars

\* C8: after a ResetPassword answered 200 the user's refreshTokens is empty.
C8_ResetRevokesRefreshTokens ==
    [][\A p \in Procs :
          (procs[p].op = "reset" /\ procs[p].pc = "save" /\ Answered(p))
              => db'[procs[p].uid].refreshTokens = <<>>]_vars

\* C9: a ResetPassword answered 200 leaves both reset paths unset, and a
\* ResetPassword that looks up a token already redeemed is answered
\* ResetTokenNotFound and writes nothing.
C9_ResetTokenRedeemedOnce ==
    [][\A p \in Procs :
          /\ (procs[p].op = "reset" /\ procs[p].pc = "save" /\ Answered(p))
                => /\ db'[procs[p].uid].passwordResetToken = <<>>
                   /\ db'[procs[p].uid].passwordResetExpires = NoTime
          /\ ( /\ procs[p].op = "reset" /\ procs[p].pc = "find" /\ Steps(p)
               /\ procs[p].rtok \in redeemed )
                => /\ last'.res = "ResetTokenNotFound"
                   /\ procs'[p].pc = "idle"
                   /\ db' = db]_vars

C9_Witness ==
    /\ last.op = "reset" /\ last.res = "ResetTokenNotFound"
    /\ last.rtok \in redeemed
    /\ \E u \in Users : db[u].passwordChangedAt # NoTime /\ db[u].passwordResetToken = <<>>

\* C10: no reset token is redeemed twice: a ResetPassword is answered 200 only
\* for a token that no earlier ResetPassword was answered 200 for.
C10_ConcurrentResetAtMostOnce ==
    [][\A p \in Procs :
          (procs[p].op = "reset" /\ procs[p].pc = "save" /\ Answered(p))
              => procs[p].rtok \notin redeemed]_vars

\* C11: of two Register requests handled one after the other for the same
\* normalized email, the second is answered EmailAlreadyExists, creates nothing
\* and leaves exactly one user record with that email.
C11_SecondRegisterRefused ==
    [][\A p \in Procs :
          LET u == procs[p].uid
          IN ( /\ procs[p].op = "register" /\ procs[p].pc \in {"find", "create"}
               /\ Steps(p) /\ ndocs[u] >= 1 )
                 => /\ last'.res = "EmailAlreadyExists"
                    /\ procs'[p].pc = "idle"
                    /\ ndocs'[u] = 1
                    /\ db' = db]_vars

C11_Witness ==
    /\ last.op = "register" /\ last.res = "EmailAlreadyExists"
    /\ ndocs[last.uid] = 1
    /\ Len(db[last.uid].refreshTokens) = 1

\* C12: in every reachable state, also when two Register requests for the same
\* email both pass findOne before either creates, the collection holds at most
\* one user record per email.
C12_EmailUnique == \A u \in Users : ndocs[u] <= 1

C12_Witness ==
    /\ last.op = "register" /\ last.res = "DuplicateKey"
    /\ ndocs[last.uid] = 1

\* C13: a Register that has passed request validation and finds no record for
\* its email creates exactly one user record and is answered 201 with an access
\* token and a refresh token, and the refresh token is an entry of the new
\* user's refreshTokens with expiresAt = now + 7 days.
C13_RegisterCreatesAndIssues ==
    [][\A p \in Procs :
          LET u == procs[p].uid
          IN ( /\ procs[p].op = "register" /\ procs[p].pc \in {"create", "issue"}
               /\ Answered(p) )
                 => /\ last'.res = "201"
                    /\ last'.at # NoToken /\ last'.rt # NoToken
                    /\ ndocs'[u] = 1
                    /\ \E i \in 1..Len(db'[u].refreshTokens) :
                          /\ db'[u].refreshTokens[i].token = last'.rt
                          /\ db'[u].refreshTokens[i].expiresAt = now + RefreshTtlMs]_vars

\* C14: a login that matches after fewer than five wrong passwords in a row
\* stores loginAttempts = 0 and leaves accountLockedUntil unset, so the count
\* starts again: while fewer than five wrong passwords have followed the last
\* match the stored count equals their number and the account is not locked.
C14_SuccessResetsCounter ==
    /\ [][\A p \in Procs :
             LET u == procs[p].uid
             IN ( /\ procs[p].op = "login" /\ procs[p].pc = "compare" /\ Steps(p)
                  /\ BcryptCompare(procs[p].pw, db[u].passwordHash)
                  /\ wrong[u] < MaxFailedAttempts )
                    => /\ procs'[p].pc = "issue"
                       /\ db'[u].loginAttempts = 0
                       /\ db'[u].accountLockedUntil = NoTime]_vars
    /\ [](\A u \in Users :
             wrong[u] < MaxFailedAttempts
                 => /\ db[u].loginAttempts = wrong[u]
                    /\ db[u].accountLockedUntil = NoTime)

C14_Witness ==
    \E p \in Procs :
        /\ procs[p].op = "login" /\ procs[p].pc = "issue"
        /\ last.op = "login" /\ last.res = "InvalidCredentials"
        /\ last.uid = procs[p].uid
        /\ db[procs[p].uid].loginAttempts = 0
        /\ db[procs[p].uid].accountLockedUntil = NoTime

\* C15: a login for an account whose lock ends in the future is answered at
\* the lock check and changes nothing in the user record: loginAttempts,
\* accountLockedUntil (the lock is not extended), lastLoginAt and
\* refreshTokens are as before.
C15_LockedLoginWritesNothing ==
    [][\A p \in Procs :
          LET u == procs[p].uid
          IN ( /\ procs[p].op = "login" /\ procs[p].pc = "find" /\ Steps(p)
               /\ db[u].exists /\ LockInFuture(u) )
                 => /\ Answered(p)
                    /\ db'[u].loginAttempts = db[u].loginAttempts
                    /\ db'[u].accountLockedUntil = db[u].accountLockedUntil
                    /\ db'[u].lastLoginAt = db[u].lastLoginAt
                    /\ db'[u].refreshTokens = db[u].refreshTokens]_vars

C15_Witness ==
    /\ last.op = "login" /\ last.res = "AccountLocked" /\ ~LastPasswordMatches
    /\ wrong[last.uid] = MaxFailedAttempts + 1
    /\ db[last.uid].loginAttempts = MaxFailedAttempts
    /\ LockInFuture(last.uid)

\* C16: a ResetPassword answered 200 leaves the account unlocked whatever it
\* was before (loginAttempts = 0, accountLockedUntil unset), and the login with
\* the new password that follows it is answered 200, also when the account was
\* locked until a later instant before the reset.
C16_ResetUnlocks ==
    [][\A p \in Procs :
          LET u == procs[p].uid
          IN /\ (procs[p].op = "reset" /\ procs[p].pc = "save" /\ Answered(p))
                    => /\ db'[u].loginAttempts = 0
                       /\ db'[u].accountLockedUntil = NoTime
             /\ ( /\ procs[p].op = "login" /\ Answered(p)
                  /\ last.op = "reset" /\ last.res = "200" /\ last.uid = u
                  /\ BcryptCompare(procs[p].pw, db[u].passwordHash) )
                    => last'.res = "200"]_vars

C16_Witness ==
    \E p \in Procs :
        /\ procs[p].op = "login" /\ procs[p].pc = "issue"
        /\ last.op = "reset" /\ last.res = "200" /\ last.uid = procs[p].uid
        /\ lifted[procs[p].uid] > now
        /\ db[procs[p].uid].accountLockedUntil = NoTime

\* C17: once the clock has reached accountLockedUntil the lock is not treated
\* as active: a login passes the lock check, and with the correct password it
\* is answered 200, stores loginAttempts = 0 and clears accountLockedUntil.
\* Nothing but a request changes the record: the passing of time alone leaves
\* the expired lock stored.
C17_ExpiredLockIgnored ==
    [][/\ \A p \in Procs :
            LET u == procs[p].uid
            IN /\ ( /\ procs[p].op = "login" /\ procs[p].pc = "find" /\ Steps(p)
                    /\ db[u].exists /\ db[u].accountLockedUntil # NoTime
                    /\ ~LockInFuture(u) )
                      => procs'[p].pc = "compare"
               /\ ( /\ procs[p].op = "login" /\ procs[p].pc = "compare" /\ Steps(p)
                    /\ db[u].accountLockedUntil # NoTime
                    /\ BcryptCompare(procs[p].pw, db[u].passwordHash) )
                      => /\ procs'[p].pc = "issue"
                         /\ db'[u].loginAttempts = 0
                         /\ db'[u].accountLockedUntil = NoTime
               /\ (procs[p].op = "login" /\ procs[p].pc = "issue" /\ Steps(p))
                      => last'.res = "200"
       /\ now' # now => db' = db]_vars

C17_Witness ==
    /\ last.op = "login" /\ last.res = "200"
    /\ lifted[last.uid] # NoTime
    /\ lifted[last.uid] <= db[last.uid].lastLoginAt
    /\ db[last.uid].loginAttempts = 0
    /\ db[last.uid].accountLockedUntil = NoTime

\* C18: a Refresh is answered 200 only if the presented token verifies under
\* the refresh key at the clock's second and the subject's stored refreshTokens
\* holds an entry with this token whose expiresAt is in the future; while every
\* stored entry of the token has run out, a Refresh with it is refused although
\* the entry is still stored.
C18_RefreshNeedsLiveEntry ==
    [][\A p \in Procs :
          LET t == procs[p].tok
          IN /\ ( /\ procs[p].op = "refresh" /\ procs[p].pc = "find"
                  /\ procs'[p].pc = "rotate" )
                    => JwtVerify(t, RefreshSecret, now)
             /\ (procs[p].op = "refresh" /\ Answered(p) /\ last'.res = "200")
                    => /\ procs[p].pc = "rotate"
                       /\ \E i \in 1..Len(db[t.sub].refreshTokens) :
                             /\ db[t.sub].refreshTokens[i].token = t
                             /\ db[t.sub].refreshTokens[i].expiresAt > now
             /\ ( /\ procs[p].op = "refresh" /\ Answered(p) /\ t.sub \in Users
                  /\ \A i \in 1..Len(db[t.sub].refreshTokens) :
                        db[t.sub].refreshTokens[i].token = t
                            => db[t.sub].refreshTokens[i].expiresAt <= now )
                    => last'.res # "200"]_vars

C18_Witness ==
    /\ last.op = "refresh" /\ last.res # "200" /\ last.tok.sub \in Users
    /\ \E i \in 1..Len(db[last.tok.sub].refreshTokens) :
          /\ db[last.tok.sub].refreshTokens[i].token = last.tok
          /\ db[last.tok.sub].refreshTokens[i].expiresAt <= now

\* C19: every Refresh that is refused (malformed token, expired token, token
\* absent from the registry) is answered with one and the same 401 response
\* (status, code and message), and leaves the user records as they were.
C19_RefreshFailuresAlike ==
    [][\A p \in Procs :
          (procs[p].op = "refresh" /\ Answered(p) /\ last'.res # "200")
              => /\ ErrorBody(last'.res).status = 401
                 /\ ErrorBody(last'.res) = ErrorBody("TokenInvalid")
                 /\ db' = db]_vars

\* C20: a Logout answered 200 with a refreshToken in the body leaves no entry
\* with that token (a Refresh with it is refused) and removes no entry of
\* another session: at most the one entry of the session that logs out goes;
\* a Logout answered 200 without a refreshToken leaves refreshTokens empty.
C20_LogoutRevokes ==
    [][\A p \in Procs :
          LET u == procs[p].uid
              rt == procs[p].refreshToken
          IN (procs[p].op = "logout" /\ procs[p].pc = "save" /\ Answered(p)
                  /\ last'.res = "200")
                => IF rt # NoToken
                   THEN /\ \A i \in 1..Len(db'[u].refreshTokens) :
                             db'[u].refreshTokens[i].token # rt
                        /\ Len(db'[u].refreshTokens) >= Len(db[u].refreshTokens) - 1
                   ELSE db'[u].refreshTokens = <<>>]_vars

\* C21: a request to an authenticated endpoint whose bearer token is absent or
\* malformed (never issued), expired, or signed before the subject's
\* passwordChangedAt is answered 401 by authMiddleware and does not reach the
\* handler.
C21_BadTokenAnswered401 ==
    [][\A p \in Procs :
          LET t == procs[p].tok
          IN ( /\ procs[p].pc = "auth" /\ Steps(p)
               /\ \/ t \notin DOMAIN signedAt
                  \/ ~JwtVerify(t, AccessSecret, now)
                  \/ signedAt[t] < db[t.sub].passwordChangedAt )
                 => /\ procs'[p].pc = "idle"
                    /\ Status(last'.res) = 401
                    /\ db' = db]_vars

\* C22: a ForgotPassword for an email that has no user record is answered 200
\* and has no effect: no record is created or altered, no reset token is
\* generated and no mail is sent.
C22_ForgotUnknownEmailNoEffect ==
    [][\A p \in Procs :
          ( /\ procs[p].op = "forgot" /\ procs[p].pc = "find" /\ Steps(p)
            /\ ndocs[procs[p].uid] = 0 )
              => /\ Answered(p)
                 /\ Status(last'.res) = 200
                 /\ db' = db /\ ndocs' = ndocs
                 /\ nextReset' = nextReset /\ mailed' = mailed]_vars

C22_Witness ==
    /\ last.op = "forgot" /\ last.res = "200"
    /\ ndocs[last.uid] = 0 /\ ~db[last.uid].exists
    /\ nextReset = 1 /\ mailed = {}

\* C23: every ForgotPassword is answered 200, for an email that has a user
\* record as for one that has none, also when sendEmail fails.
C23_ForgotAlwaysAnswered200 ==
    [][\A p \in Procs :
          (procs[p].op = "forgot" /\ Answered(p)) => Status(last'.res) = 200]_vars

\* C24: a reset token whose hash is stored and that is presented at or after
\* passwordResetExpires is answered ResetTokenNotFound, and no path of the
\* record (passwordHash, passwordChangedAt, loginAttempts, accountLockedUntil
\* among them) is written.
C24_ExpiredResetTokenRefused ==
    [][\A p \in Procs :
          ( /\ procs[p].op = "reset" /\ procs[p].pc = "find" /\ Steps(p)
            /\ \E u \in Users :
                  /\ db[u].exists
                  /\ db[u].passwordResetToken = Sha256(procs[p].rtok)
                  /\ db[u].passwordResetExpires # NoTime
                  /\ db[u].passwordResetExpires <= now )
              => /\ Answered(p)
                 /\ last'.res = "ResetTokenNotFound"
                 /\ db' = db]_vars

C24_Witness ==
    /\ last.op = "reset" /\ last.res = "ResetTokenNotFound"
    /\ last.rtok \in mailed
    /\ \E u \in Users :
          /\ db[u].passwordResetToken = Sha256(last.rtok)
          /\ db[u].passwordResetExpires # NoTime
          /\ db[u].passwordResetExpires <= now
    /\ redeemed = {}

\* C25: once a later forgot-password request has stored its token, a reset
\* with an earlier token is answered ResetTokenNotFound and writes nothing;
\* the newest token, while it is stored and not expired, is taken up.
C25_OnlyNewestResetTokenRedeems ==
    [][\A p \in Procs :
          ( /\ procs[p].op = "reset" /\ procs[p].pc = "find" /\ Steps(p)
            /\ procs[p].rtok # NoReset )
              => /\ procs[p].rtok < nextReset - 1
                      => /\ Answered(p)
                         /\ last'.res = "ResetTokenNotFound"
                         /\ db' = db
                 /\ ( /\ procs[p].rtok = nextReset - 1
                      /\ \E u \in Users :
                            /\ db[u].exists
                            /\ db[u].passwordResetToken = Sha256(procs[p].rtok)
                            /\ db[u].passwordResetExpires # NoTime
                            /\ db[u].passwordResetExpires > now )
                      => procs'[p].pc = "save"]_vars

\* both tokens were delivered, the first was refused before the expiry of the
\* second, the second is still stored
C25_Witness ==
    /\ last.op = "reset" /\ last.res = "ResetTokenNotFound"
    /\ last.rtok = 1 /\ {1, 2} \subseteq mailed
    /\ redeemed = {}
    /\ \E u \in Users :
          /\ db[u].passwordResetToken = Sha256(2)
          /\ db[u].passwordResetExpires # NoTime
          /\ db[u].passwordResetExpires > now

\* C26: ChangePassword writes the record only when the current password
\* matches the stored hash and the new password differs from it, and then
\* passwordHash and passwordChangedAt are the new values; equal passwords are
\* answered with the same-password error, a wrong current password with
\* InvalidCredentials, and both leave the record as it was.
C26_ChangeNeedsCurrentPassword ==
    [][\A p \in Procs :
          (procs[p].op = "change" /\ procs[p].pc \in {"find", "save"} /\ Steps(p))
            => LET u == procs[p].uid
                   same == procs[p].pw = procs[p].npw
                   match == db[u].passwordHash = BcryptHash(procs[p].pw)
               IN /\ db' # db => ~same /\ match
                  /\ (procs[p].pc = "find" /\ same)
                        => Answered(p) /\ last'.res = "SamePassword" /\ db' = db
                  /\ (procs[p].pc = "save" /\ ~match)
                        => Answered(p) /\ last'.res = "InvalidCredentials" /\ db' = db
                  /\ (procs[p].pc = "save" /\ match)
                        => /\ Answered(p) /\ last'.res = "200"
                           /\ db'[u].passwordHash = BcryptHash(procs[p].npw)
                           /\ db'[u].passwordChangedAt = now]_vars

\* a change was applied, then a change with the old password was refused
C26_Witness ==
    /\ last.op = "change" /\ last.res = "InvalidCredentials"
    /\ last.pw = "p1"
    /\ db[last.uid].passwordHash = BcryptHash("p2")
    /\ db[last.uid].passwordChangedAt # NoTime

\* request p has saved the record in an earlier step: forgotPassword awaits
\* sendEmail after its save, registerUser and loginUser create the refresh
\* token after theirs
Persisted(p) ==
    \/ procs[p].op = "forgot" /\ procs[p].pc = "mail"
    \/ procs[p].op \in {"register", "login"} /\ procs[p].pc = "issue"

\* C27: a Register, Login, Refresh, ForgotPassword or ResetPassword that is
\* answered with an error has written nothing: not in the step that answers,
\* and not in an earlier step of the request.
C27_ErrorLeavesRecordAsBefore ==
    [][\A p \in Procs :
          ( /\ procs[p].op \in {"register", "login", "refresh", "forgot", "reset"}
            /\ Answered(p)
            /\ Status(last'.res) >= 400 )
              => ~Persisted(p) /\ db' = db /\ ndocs' = ndocs]_vars

\* C28 as stated: an issued access token is rejected by authMiddleware from
\* 15 minutes after its issue on, and accepted at every earlier instant
\* provided the subject exists and has not changed password since the issue.
C28_AcceptedWithinLifetime ==
    [][\A p \in Procs :
          LET t == procs[p].tok
          IN (procs[p].pc = "auth" /\ Steps(p) /\ t \in DOMAIN signedAt)
               => /\ now - signedAt[t] >= AccessTtlSec * MsPerSec
                       => Answered(p) /\ last'.res = "Unauthorized"
                  /\ ( /\ now - signedAt[t] < AccessTtlSec * MsPerSec
                       /\ db[t.sub].exists
                       /\ \/ db[t.sub].passwordChangedAt = NoTime
                          \/ db[t.sub].passwordChangedAt < signedAt[t] )
                       => procs'[p].pc = "find"]_vars

\* C28, amended: the token is rejected from 15 minutes after its issue on, and
\* accepted while the clock second is earlier than 15 minutes after the clock
\* second of its issue, provided the subject exists and has not changed
\* password since the issue.
C28_AcceptedUntilExp ==
    [][\A p \in Procs :
          LET t == procs[p].tok
          IN (procs[p].pc = "auth" /\ Steps(p) /\ t \in DOMAIN signedAt)
               => /\ now - signedAt[t] >= AccessTtlSec * MsPerSec
                       => Answered(p) /\ last'.res = "Unauthorized"
                  /\ ( /\ Seconds(now) < Seconds(signedAt[t]) + AccessTtlSec
                       /\ db[t.sub].exists
                       /\ \/ db[t.sub].passwordChangedAt = NoTime
                          \/ db[t.sub].passwordChangedAt < signedAt[t] )
                       => procs'[p].pc = "find"]_vars

\* a token issued after a password change was accepted before its exp
C28_Witness ==
    /\ last.op = "me" /\ last.res = "200"
    /\ last.tok \in DOMAIN signedAt
    /\ db[last.uid].passwordChangedAt # NoTime
    /\ db[last.uid].passwordChangedAt < signedAt[last.tok]
    /\ Seconds(now) < Seconds(signedAt[last.tok]) + AccessTtlSec

\* C29: in every key configuration, authMiddleware lets no refresh token
\* through and no Refresh that presents an access token is answered 200.
C29_TokenClassesSeparate ==
    [][\A p \in Procs :
          /\ (procs[p].pc = "auth" /\ Steps(p) /\ procs[p].tok \in issuedR)
                => Answered(p) /\ last'.res = "Unauthorized"
          /\ (procs[p].op = "refresh" /\ Answered(p) /\ procs[p].tok \in issuedA)
                => last'.res # "200"]_vars

\* C30: a Refresh answered 200 takes exactly one entry, the one of the
\* presented token, out of refreshTokens, appends one entry for the returned
\* token with expiresAt = now + 7 days and leaves the other entries as they
\* were, so the number of entries is unchanged.
C30_RefreshReplacesOneEntry ==
    [][\A p \in Procs :
          ( /\ procs[p].op = "refresh" /\ Answered(p) /\ last'.res = "200" )
            => LET arr == db[procs[p].uid].refreshTokens
                   new == db'[procs[p].uid].refreshTokens
               IN /\ Len(new) = Len(arr)
                  /\ \E i \in 1..Len(arr) :
                        /\ arr[i].token = procs[p].tok
                        /\ new = SubSeq(arr, 1, i - 1) \o SubSeq(arr, i + 1, Len(arr))
                                  \o <<[token |-> last'.rt,
                                        expiresAt |-> now + RefreshTtlMs]>>]_vars

\* C31: the token strings of the entries of a user's refreshTokens are
\* pairwise distinct, and a Refresh answered 200 returns a refresh token other
\* than the one that was presented.
C31_RefreshTokensDistinct ==
    /\ \A u \in Users :
          \A i, j \in 1..Len(db[u].refreshTokens) :
              i # j => db[u].refreshTokens[i].token # db[u].refreshTokens[j].token
    /\ (last.op = "refresh" /\ last.res = "200") => last.rt # last.tok

\* C32: a lock that has run out leaves loginAttempts at five or more, and a
\* wrong-password login compared after the lock window is answered
\* InvalidCredentials, raises loginAttempts by one and locks the account again
\* for 30 minutes from now.
C32_ExpiredLockRelocksOnOneFailure ==
    [][\A p \in Procs :
          LET u == procs[p].uid
          IN ( /\ procs[p].op = "login" /\ procs[p].pc = "compare" /\ Steps(p)
               /\ db[u].accountLockedUntil # NoTime
               /\ db[u].accountLockedUntil <= now
               /\ db[u].passwordHash # BcryptHash(procs[p].pw) )
                 => /\ db[u].loginAttempts >= MaxFailedAttempts
                    /\ Answered(p) /\ last'.res = "InvalidCredentials"
                    /\ db'[u].loginAttempts = db[u].loginAttempts + 1
                    /\ db'[u].accountLockedUntil = now + LockMs]_vars

\* the sixth failure was counted after the first lock ran out, and locks again
C32_Witness ==
    /\ last.op = "login" /\ last.res = "InvalidCredentials"
    /\ db[last.uid].loginAttempts = MaxFailedAttempts + 1
    /\ db[last.uid].accountLockedUntil = now + LockMs

\* C33: no step of a ChangePassword writes refreshTokens; once the password
\* has been changed, a Refresh with an issued token that verifies and has a
\* live entry is answered 200, the access token it returns verifies and is
\* not older than passwordChangedAt, and authMiddleware lets such a token
\* through.
C33_ChangeKeepsSessions ==
    [][\A p \in Procs :
          LET t == procs[p].tok
          IN /\ (procs[p].op = "change" /\ Steps(p))
                   => \A u \in Users : db'[u].refreshTokens = db[u].refreshTokens
             /\ ( /\ procs[p].op = "refresh" /\ procs[p].pc = "find" /\ Steps(p)
                  /\ t \in issuedR
                  /\ db[t.sub].passwordChangedAt # NoTime
                  /\ t.key = RefreshSecret /\ Seconds(now) < t.exp )
                   => procs'[p].pc = "rotate"
             /\ ( /\ procs[p].op = "refresh" /\ procs[p].pc = "rotate" /\ Steps(p)
                  /\ db[t.sub].passwordChangedAt # NoTime
                  /\ \E i \in 1..Len(db[t.sub].refreshTokens) :
                        /\ db[t.sub].refreshTokens[i].token = t
                        /\ db[t.sub].refreshTokens[i].expiresAt > now )
                   => /\ Answered(p) /\ last'.res = "200"
                      /\ last'.at.key = AccessSecret
                      /\ Seconds(now) < last'.at.exp
                      /\ last'.at.iat >= Seconds(db'[t.sub].passwordChangedAt)
             /\ ( /\ procs[p].pc = "auth" /\ Steps(p)
                  /\ t \in DOMAIN signedAt
                  /\ db[t.sub].exists
                  /\ db[t.sub].passwordChangedAt # NoTime
                  /\ signedAt[t] >= db[t.sub].passwordChangedAt
                  /\ t.key = AccessSecret /\ Seconds(now) < t.exp )
                   => procs'[p].pc = "find"]_vars

\* after a change, a refresh token of the registration was rotated and the
\* access token of that Refresh was let through to getMe
C33_Witness ==
    /\ last.op = "me" /\ last.res = "200"
    /\ last.tok \in DOMAIN signedAt
    /\ db[last.uid].passwordChangedAt # NoTime
    /\ signedAt[last.tok] > db[last.uid].passwordChangedAt
    /\ \E r \in rotated : r.iat * MsPerSec <= db[last.uid].passwordChangedAt

\* the user a request acts for: the subject of the bearer or refresh token, the
\* account of the email, the owner of the reset token
Actor(p) ==
    IF procs[p].op \in {"refresh", "logout", "change"} THEN procs[p].tok.sub
    ELSE procs[p].uid

\* C34: no step of a Login, Refresh, Logout, ChangePassword or ResetPassword
\* writes the record of a user other than the one it acts for; a Logout that
\* presents a refresh token of another user leaves that user's refreshTokens
\* as they were, and a Refresh with a token that has a live entry is answered
\* 200.
C34_OtherUsersUntouched ==
    [][\A p \in Procs :
          LET rt == procs[p].refreshToken
              t == procs[p].tok
          IN /\ ( /\ procs[p].op \in {"login", "refresh", "logout", "change", "reset"}
                  /\ Steps(p) )
                   => \A v \in Users :
                          v # Actor(p) => db'[v] = db[v] /\ ndocs'[v] = ndocs[v]
             /\ ( /\ procs[p].op = "logout" /\ procs[p].pc = "save" /\ Steps(p)
                  /\ rt # NoToken /\ rt.sub # t.sub )
                   => /\ Answered(p) /\ last'.res = "200"
                      /\ db'[rt.sub].refreshTokens = db[rt.sub].refreshTokens
             /\ ( /\ procs[p].op = "refresh" /\ procs[p].pc = "rotate" /\ Steps(p)
                  /\ \E i \in 1..Len(db[t.sub].refreshTokens) :
                        /\ db[t.sub].refreshTokens[i].token = t
                        /\ db[t.sub].refreshTokens[i].expiresAt > now )
                   => Answered(p) /\ last'.res = "200"]_vars

\* a Logout of one user presented a refresh token of another user, whose
\* entry is still there and live
C34_Witness ==
    /\ last.op = "logout" /\ last.res = "200"
    /\ last.refreshToken # NoToken
    /\ last.tok.sub \in Users /\ last.refreshToken.sub \in Users
    /\ last.refreshToken.sub # last.tok.sub
    /\ \E i \in 1..Len(db[last.refreshToken.sub].refreshTokens) :
          /\ db[last.refreshToken.sub].refreshTokens[i].token = last.refreshToken
          /\ db[last.refreshToken.sub].refreshTokens[i].expiresAt > now

====
